---- MODULE Spec2Model ----
(***************************************************************************)
(* A model of wolt-card-worker: the PDF heuristics of parse_pdf.py (code   *)
(* locator, value locator, text extractor, orchestrator), the attachment   *)
(* batch and the /fetch-gift-cards handler of main.py, and the dedup'ing   *)
(* save of supabase_client.py.                                             *)
(*                                                                         *)
(* Text is a sequence of characters.  A character is a one-letter string,  *)
(* except for the few that are named: "SP" (space), "NL" (line feed),      *)
(* "SHEKEL" (the currency glyph U+20AA) and the Hebrew letters "QOF",      *)
(* "VAV", "DALET" (which spell the marker word of line 39 of parse_pdf).   *)
(***************************************************************************)
EXTENDS Integers, Sequences, FiniteSets, TLC

VARIABLES
    entry,      \* which function of parse_pdf.py is being called
    doc,        \* the PDF on disk: [openable, pages], a page is [readable, text]
    pc,         \* position inside the called function
    code,       \* local `code` of extract_gift_card_details
    text,       \* local `text` (extract_pdf_text's return value)
    value,      \* local `value`
    calls,      \* the components invoked so far, in order
    outcome,    \* what the call produced: a return value or a raised exception
    attachments,\* argument of extract_codes_from_attachments
    att_i,      \* loop index of extract_codes_from_attachments
    codes_with_values, \* its accumulator
    db,         \* table wolt_gift_cards: sequence of rows [code, value]
    seen_cache, \* message ids marked as processed
    mailbox,    \* the messages the Gmail search returns, with their attachments
    req         \* the running fetch_gift_cards / save_gift_card_codes calls

pdfVars == <<entry, doc, pc, code, text, value, calls, outcome>>
attVars == <<attachments, att_i, codes_with_values>>
svcVars == <<db, seen_cache, mailbox, req>>
vars == <<entry, doc, pc, code, text, value, calls, outcome,
          attachments, att_i, codes_with_values, db, seen_cache, mailbox, req>>

----------------------------------------------------------------------------
(* Characters and Python's regular-expression character classes.           *)

Upper == {"A","B","C","D","E","F","G","H","I","J","K","L","M",
          "N","O","P","Q","R","S","T","U","V","W","X","Y","Z"}
Lower == {"a","b","c","d","e","f","g","h","i","j","k","l","m",
          "n","o","p","q","r","s","t","u","v","w","x","y","z"}
Digit == {"0","1","2","3","4","5","6","7","8","9"}
Hebrew == {"QOF","VAV","DALET"}

\* [A-Z0-9] as written in the three code patterns.
UpperAlnum == Upper \cup Digit

\* What [A-Z0-9] matches once re.IGNORECASE is applied to the pattern.
UpperAlnumIgnoreCase == Upper \cup Lower \cup Digit

\* \w of a str pattern: letters of any script, digits, underscore.
WordChar == Upper \cup Lower \cup Digit \cup Hebrew \cup {"_"}

\* \s
Whitespace == {"SP", "NL"}

\* Python's None, as a value comparable with sequences of characters.
None == <<"None">>

Min(S) == CHOOSE x \in S : \A y \in S : x <= y
Max(S) == CHOOSE x \in S : \A y \in S : x >= y

\* `a if a is not None else b`: the next attempt is made only if this one failed.
OrElse(a, b) == IF a # None THEN a ELSE b

\* \b at the gap before position i of s (i in 1..Len(s)+1).
WordBoundary(s, i) ==
    LET before == i > 1 /\ s[i-1] \in WordChar
        after  == i <= Len(s) /\ s[i] \in WordChar
    IN  before # after

\* The number of leading characters of s, from position i, that are in cls.
RECURSIVE RunLen(_, _, _)
RunLen(s, i, cls) ==
    IF i > Len(s) \/ s[i] \notin cls THEN 0 ELSE 1 + RunLen(s, i + 1, cls)

\* str.split("\n")
RECURSIVE SplitLines(_)
SplitLines(s) ==
    LET nl == {i \in 1..Len(s) : s[i] = "NL"}
    IN  IF nl = {} THEN <<s>>
        ELSE LET k == Min(nl)
             IN  <<SubSeq(s, 1, k - 1)>> \o SplitLines(SubSeq(s, k + 1, Len(s)))

\* `needle in s` for str
Contains(s, needle) ==
    \E i \in 1..(Len(s) - Len(needle) + 1) :
        SubSeq(s, i, i + Len(needle) - 1) = needle

----------------------------------------------------------------------------
(* parse_pdf.py: the Code Locator.                                         *)

CodeLen == 8          \* {8} of code_pattern
FallbackMinLen == 7   \* {7,9} of the two fallback patterns
FallbackMaxLen == 9

Returned(v) == [raised |-> FALSE, ret |-> v]
Raised == [raised |-> TRUE, ret |-> None]

\* The length of the match of \b[A-Z0-9]{lo,hi}\b starting exactly at position
\* i of s (the quantifier is greedy: the longest admissible length), 0 if none.
TokenLenAt(s, i, lo, hi) ==
    LET lens == {n \in lo..hi :
                    /\ i + n - 1 <= Len(s)
                    /\ \A k \in i..(i + n - 1) : s[k] \in UpperAlnum
                    /\ WordBoundary(s, i)
                    /\ WordBoundary(s, i + n)}
    IN  IF lens = {} THEN 0 ELSE Max(lens)

\* re.findall(r"\b[A-Z0-9]{lo,hi}\b", s)[0]: the leftmost match, None if the
\* list of matches is empty.
TokenFrom(s, lo, hi, starts) ==
    IF starts = {} THEN None
    ELSE SubSeq(s, Min(starts), Min(starts) + TokenLenAt(s, Min(starts), lo, hi) - 1)
FirstToken(s, lo, hi) ==
    TokenFrom(s, lo, hi, {i \in 1..Len(s) : TokenLenAt(s, i, lo, hi) > 0})

\* The marker word of the second attempt.
HebrewCode == <<"QOF", "VAV", "DALET">>

\* Second attempt: the first line, in order, that contains the marker and a
\* token of 7 to 9 characters; that line's first token.
RECURSIVE HebrewLineCode(_, _)
HebrewLineCode(lines, n) ==
    IF n > Len(lines) THEN None
    ELSE OrElse(IF Contains(lines[n], HebrewCode)
                THEN FirstToken(lines[n], FallbackMinLen, FallbackMaxLen)
                ELSE None,
                HebrewLineCode(lines, n + 1))

UpperSeq == <<"A","B","C","D","E","F","G","H","I","J","K","L","M",
              "N","O","P","Q","R","S","T","U","V","W","X","Y","Z">>
LowerSeq == <<"a","b","c","d","e","f","g","h","i","j","k","l","m",
              "n","o","p","q","r","s","t","u","v","w","x","y","z">>
ToLower(c) ==
    IF c \in Upper THEN LowerSeq[CHOOSE k \in 1..Len(UpperSeq) : UpperSeq[k] = c]
    ELSE c

\* The literal of code_prefix_pattern.
CodeWord == <<"c", "o", "d", "e">>

\* The class [A-Z0-9] of code_prefix_pattern as the compiled pattern matches it:
\* the pattern is compiled with re.IGNORECASE, which applies to the class too.
PrefixTokenClass == UpperAlnumIgnoreCase

\* \s*([A-Z0-9]{7,9}) from position j of s: group 1, or None.  \s* takes the
\* whole whitespace run (giving some back never helps: whitespace is not in
\* the class); the group is greedy, at most 9 characters, with no \b after it.
PrefixGroupFrom(s, j) ==
    LET k == j + RunLen(s, j, Whitespace)
        n == RunLen(s, k, PrefixTokenClass)
    IN  IF n >= FallbackMinLen
        THEN SubSeq(s, k, k + (IF n > FallbackMaxLen THEN FallbackMaxLen ELSE n) - 1)
        ELSE None

\* (?:code|code:)\s*([A-Z0-9]{7,9}) anchored at position i of s: group 1, or
\* None.  The alternative "code" is tried first, then "code:".
PrefixGroupAt(s, i) ==
    IF /\ i + Len(CodeWord) - 1 <= Len(s)
       /\ \A k \in 1..Len(CodeWord) : ToLower(s[i + k - 1]) = CodeWord[k]
    THEN OrElse(PrefixGroupFrom(s, i + Len(CodeWord)),
                IF i + Len(CodeWord) <= Len(s) /\ s[i + Len(CodeWord)] = ":"
                THEN PrefixGroupFrom(s, i + Len(CodeWord) + 1)
                ELSE None)
    ELSE None

\* code_prefix_pattern.search(line): group 1 of the leftmost match, or None.
PrefixGroupFirst(line, starts) ==
    IF starts = {} THEN None ELSE PrefixGroupAt(line, Min(starts))
PrefixSearch(line) ==
    PrefixGroupFirst(line, {i \in 1..Len(line) : PrefixGroupAt(line, i) # None})

\* Third attempt: the first line, in order, on which the prefix pattern matches.
RECURSIVE PrefixLineCode(_, _)
PrefixLineCode(lines, n) ==
    IF n > Len(lines) THEN None
    ELSE OrElse(PrefixSearch(lines[n]), PrefixLineCode(lines, n + 1))

\* The body of the page loop (lines 18-55): the three attempts on one page's
\* text; None when the loop goes on to the next page.
CodeOnPage(t) ==
    OrElse(FirstToken(t, CodeLen, CodeLen),
           OrElse(HebrewLineCode(SplitLines(t), 1),
                  PrefixLineCode(SplitLines(t), 1)))

\* The page loop from page n on.  page.get_text() of an unreadable page raises,
\* and nothing in extract_gift_card_code catches it.
RECURSIVE CodeFromPages(_, _)
\* found is what the attempts gave on page n
AfterPage(pages, n, found) ==
    IF found # None THEN Returned(found) ELSE CodeFromPages(pages, n + 1)
CodeFromPages(pages, n) ==
    IF n > Len(pages) THEN Returned(None)
    ELSE IF ~pages[n].readable THEN Raised
    ELSE AfterPage(pages, n, CodeOnPage(pages[n].text))

\* extract_gift_card_code(pdf_path): fitz.open is not guarded either.
extract_gift_card_code(d) ==
    IF ~d.openable THEN Raised ELSE CodeFromPages(d.pages, 1)

----------------------------------------------------------------------------
(* parse_pdf.py: the Value Locator.                                        *)

DigitSeq == <<"0","1","2","3","4","5","6","7","8","9">>
DigitVal(c) == (CHOOSE k \in 1..Len(DigitSeq) : DigitSeq[k] = c) - 1

\* int(s) of a string of decimal digits.
RECURSIVE ToInt(_)
ToInt(ds) ==
    IF ds = <<>> THEN 0
    ELSE 10 * ToInt(SubSeq(ds, 1, Len(ds) - 1)) + DigitVal(ds[Len(ds)])

\* int(float(s)) of a string of decimal digits: the capture groups of
\* ils_pattern never hold the fraction, and a double holds every integer below
\* 2^53 exactly, far above the amounts of the model.
IntOfFloat(ds) == ToInt(ds)

\* s holds the literal lit at position i.
LiteralAt(s, i, lit) ==
    /\ i + Len(lit) - 1 <= Len(s)
    /\ SubSeq(s, i, i + Len(lit) - 1) = lit

\* The position after the whitespace run that starts at position i (\s*).
SkipSpace(s, i) == i + RunLen(s, i, Whitespace)

DecimalZeros == <<".", "0", "0">>
ShekelSign == <<"SHEKEL">>
IlsWord == <<"I", "L", "S">>

\* (\d+)\.00\s*SHEKEL anchored at i: group 1, or None.  \d+ takes the whole run of
\* digits: with fewer, the next character is a digit and not the ".".
ShekelDecimalAt(s, i) ==
    LET n == RunLen(s, i, Digit)
    IN  IF /\ n >= 1
           /\ LiteralAt(s, i + n, DecimalZeros)
           /\ LiteralAt(s, SkipSpace(s, i + n + Len(DecimalZeros)), ShekelSign)
        THEN SubSeq(s, i, i + n - 1)
        ELSE None

\* (?:SHEKEL\s*(\d+))|(?:(\d+)\s*SHEKEL) anchored at i: <<group 1, group 2>>, or
\* None when neither alternative matches there.
ShekelAt(s, i) ==
    LET j  == SkipSpace(s, i + 1)
        n1 == RunLen(s, j, Digit)
        n2 == RunLen(s, i, Digit)
    IN  IF LiteralAt(s, i, ShekelSign) /\ n1 >= 1
        THEN <<SubSeq(s, j, j + n1 - 1), None>>
        ELSE IF n2 >= 1 /\ LiteralAt(s, SkipSpace(s, i + n2), ShekelSign)
        THEN <<None, SubSeq(s, i, i + n2 - 1)>>
        ELSE None

\* (?:ILS\s*(\d+)(?:\.\d+)?)|(?:(\d+)(?:\.\d+)?\s*ILS) anchored at i:
\* <<group 1, group 2>>, or None.  In the second alternative the optional
\* fraction is tried first and given up if "ILS" does not follow it.
IlsAt(s, i) ==
    LET j  == SkipSpace(s, i + Len(IlsWord))
        n1 == RunLen(s, j, Digit)
        n2 == RunLen(s, i, Digit)
        m  == RunLen(s, i + n2 + 1, Digit)
        withFraction ==
            /\ i + n2 <= Len(s) /\ s[i + n2] = "." /\ m >= 1
            /\ LiteralAt(s, SkipSpace(s, i + n2 + 1 + m), IlsWord)
        withoutFraction == LiteralAt(s, SkipSpace(s, i + n2), IlsWord)
    IN  IF LiteralAt(s, i, IlsWord) /\ n1 >= 1
        THEN <<SubSeq(s, j, j + n1 - 1), None>>
        ELSE IF n2 >= 1 /\ (withFraction \/ withoutFraction)
        THEN <<None, SubSeq(s, i, i + n2 - 1)>>
        ELSE None

\* match.group(1) if match.group(1) else match.group(2)
FirstGroup(m) == IF m[1] # None THEN m[1] ELSE m[2]

\* shekel_decimal_pattern.search(pdf_text): group 1 of the leftmost match.
ShekelDecimalFirst(s, starts) ==
    IF starts = {} THEN None ELSE ShekelDecimalAt(s, Min(starts))
ShekelDecimalSearch(s) ==
    ShekelDecimalFirst(s, {i \in 1..Len(s) : ShekelDecimalAt(s, i) # None})

ShekelFirst(s, starts) ==
    IF starts = {} THEN None ELSE ShekelAt(s, Min(starts))
ShekelSearch(s) ==
    ShekelFirst(s, {i \in 1..Len(s) : ShekelAt(s, i) # None})

IlsFirst(s, starts) ==
    IF starts = {} THEN None ELSE IlsAt(s, Min(starts))
IlsSearch(s) ==
    IlsFirst(s, {i \in 1..Len(s) : IlsAt(s, i) # None})

\* Lines 72-75, 80-85 and 90-94: the number a pattern's match gives, or, with no
\* match, what the patterns after it give.
DecimalValueOr(m, otherwise) ==
    IF m # None THEN ToInt(m) ELSE otherwise
ShekelValueOr(m, otherwise) ==
    IF m # None THEN ToInt(FirstGroup(m)) ELSE otherwise
IlsValueOr(m, otherwise) ==
    IF m # None THEN IntOfFloat(FirstGroup(m)) ELSE otherwise

\* A variant that tries the bare-glyph pattern before the decimal one.
extract_gift_card_value_glyph_first(s) ==
    ShekelValueOr(ShekelSearch(s),
        DecimalValueOr(ShekelDecimalSearch(s),
            IlsValueOr(IlsSearch(s), 0)))

\* extract_gift_card_value(pdf_text)
extract_gift_card_value(s) ==
    DecimalValueOr(ShekelDecimalSearch(s),
        ShekelValueOr(ShekelSearch(s),
            IlsValueOr(IlsSearch(s), 0)))

----------------------------------------------------------------------------
(* parse_pdf.py: the Text Extractor and the orchestrator.                  *)

\* The page loop of extract_pdf_text from page n on, text being what the pages
\* before it gave: the exception of an unreadable page ends the loop, and the
\* except clause leaves text as it is.
RECURSIVE TextFromPages(_, _, _)
TextFromPages(pages, n, acc) ==
    IF n > Len(pages) THEN acc
    ELSE IF ~pages[n].readable THEN acc
    ELSE TextFromPages(pages, n + 1, acc \o pages[n].text)

\* A variant that steps over an unreadable page and goes on.
RECURSIVE ReadablePagesText(_, _)
ReadablePagesText(pages, n) ==
    IF n > Len(pages) THEN <<>>
    ELSE (IF pages[n].readable THEN pages[n].text ELSE <<>>)
         \o ReadablePagesText(pages, n + 1)

extract_pdf_text_skipping(d) ==
    IF ~d.openable THEN <<>> ELSE ReadablePagesText(d.pages, 1)

\* extract_pdf_text(pdf_path)
extract_pdf_text(d) ==
    IF ~d.openable THEN <<>> ELSE TextFromPages(d.pages, 1, <<>>)

\* A variant of the test of line 133 that never short-circuits.
NoCodeNever(c) == FALSE

\* `not code` (line 133): None or the empty string.
NoCode(c) == c = None \/ c = <<>>

\* extract_gift_card_details(pdf_path) as a function of the document.
\* c is what extract_gift_card_code(d) gave (line 132).
DetailsAfterCode(d, c) ==
    IF c.raised THEN Raised
    ELSE IF NoCode(c.ret) THEN Returned(<<None, 0>>)
    ELSE Returned(<<c.ret, extract_gift_card_value(extract_pdf_text(d))>>)
extract_gift_card_details(d) == DetailsAfterCode(d, extract_gift_card_code(d))

----------------------------------------------------------------------------
(* Documents.  A document is put together from fragments of text; the      *)
(* fragments are spread, in order, over the pages.                          *)

\* A file fitz.open cannot open.
CorruptDoc == [openable |-> FALSE, pages |-> <<>>]

\* The concatenation of those of the fragments fs that lie on page j.
RECURSIVE PageText(_, _, _, _)
PageText(fs, pg, j, i) ==
    IF i > Len(fs) THEN <<>>
    ELSE (IF pg[i] = j THEN fs[i] ELSE <<>>) \o PageText(fs, pg, j, i + 1)

NonDecreasing(k, p) ==
    {pg \in [1..k -> 1..p] : \A a, b \in 1..k : a <= b => pg[a] <= pg[b]}

\* Every document of at most maxPages pages that holds at most maxFrags
\* fragments of F, each page readable or not, and the corrupt file.
DocsOver(F, maxFrags, maxPages) ==
    {CorruptDoc} \cup
    UNION { UNION {
        { [openable |-> TRUE,
           pages |-> [j \in 1..p |->
                        [readable |-> rd[j], text |-> PageText(fs, pg, j, 1)]]]
          : fs \in [1..k -> F], pg \in NonDecreasing(k, p), rd \in [1..p -> BOOLEAN] }
        : p \in 1..maxPages }
      : k \in 0..maxFrags }

Token8   == <<"A","B","1","2","C","D","3","4">>
Token8b  == <<"Z","Z","9","9","Y","Y","8","8">>
Token7   == <<"W","O","L","T","7","7","7">>
LowerWord == <<"v","o","u","c","h","e","r">>
CodeLabel == <<"c","o","d","e",":">>
HebrewLabel == <<"QOF","VAV","DALET","SP">>
NewLine  == <<"NL">>

MaxCodeFrags == 3
MaxCodePages == 2
CodeFrags == {Token8, Token7, LowerWord, CodeLabel, HebrewLabel, NewLine}

----------------------------------------------------------------------------
(* Initial values of the parts of the state a specification does not use.  *)

IdlePdf ==
    /\ entry = "none" /\ doc = CorruptDoc /\ pc = "idle"
    /\ code = None /\ text = <<>> /\ value = 0 /\ calls = <<>>
    /\ outcome = Returned(None)
IdleAtt == attachments = <<>> /\ att_i = 0 /\ codes_with_values = <<>>
IdleSvc == db = <<>> /\ seen_cache = {} /\ mailbox = <<>> /\ req = <<>>

----------------------------------------------------------------------------
(* SpecCode: extract_gift_card_code applied to a document.                 *)

InitCode ==
    /\ entry = "extract_gift_card_code"
    /\ doc \in DocsOver(CodeFrags, MaxCodeFrags, MaxCodePages)
    /\ pc = "start"
    /\ code = None /\ text = <<>> /\ value = 0 /\ calls = <<>>
    /\ outcome = Returned(None)
    /\ IdleAtt /\ IdleSvc

CallCodeLocator ==
    /\ entry = "extract_gift_card_code" /\ pc = "start"
    /\ outcome' = extract_gift_card_code(doc)
    /\ calls' = Append(calls, "extract_gift_card_code")
    /\ pc' = "done"
    /\ UNCHANGED <<entry, doc, code, text, value>>
    /\ UNCHANGED attVars /\ UNCHANGED svcVars

NextCode == CallCodeLocator
SpecCode == InitCode /\ [][NextCode]_vars

----------------------------------------------------------------------------
(* SpecDetails: extract_gift_card_details, step by step, and               *)
(* extract_pdf_text, applied to a document.                                *)

Amount == <<"6","0",".","0","0","SHEKEL">>

MaxDetailFrags == 3
MaxDetailPages == 2
DetailFrags == {Token8, Amount, CodeLabel}

InitDetails ==
    /\ entry \in {"extract_gift_card_details", "extract_pdf_text"}
    /\ doc \in DocsOver(DetailFrags, MaxDetailFrags, MaxDetailPages)
    /\ pc = "start"
    /\ code = None /\ text = <<>> /\ value = 0 /\ calls = <<>>
    /\ outcome = Returned(None)
    /\ IdleAtt /\ IdleSvc

\* r is what extract_gift_card_code gave: its exception leaves
\* extract_gift_card_details.
LocatedCode(r) ==
    IF r.raised
    THEN /\ outcome' = Raised /\ pc' = "done" /\ UNCHANGED code
    ELSE /\ code' = r.ret /\ pc' = "located" /\ UNCHANGED outcome

\* line 132: code = extract_gift_card_code(pdf_path)
DetailsLocateCode ==
    /\ entry = "extract_gift_card_details" /\ pc = "start"
    /\ calls' = Append(calls, "extract_gift_card_code")
    /\ LocatedCode(extract_gift_card_code(doc))
    /\ UNCHANGED <<entry, doc, text, value>>
    /\ UNCHANGED attVars /\ UNCHANGED svcVars

\* lines 133-134: if not code: return None, 0
DetailsNoCode ==
    /\ entry = "extract_gift_card_details" /\ pc = "located"
    /\ NoCode(code)
    /\ outcome' = Returned(<<None, 0>>)
    /\ pc' = "done"
    /\ UNCHANGED <<entry, doc, code, text, value, calls>>
    /\ UNCHANGED attVars /\ UNCHANGED svcVars

\* line 136: text = extract_pdf_text(pdf_path)
DetailsExtractText ==
    /\ entry = "extract_gift_card_details" /\ pc = "located"
    /\ ~NoCode(code)
    /\ text' = extract_pdf_text(doc)
    /\ calls' = Append(calls, "extract_pdf_text")
    /\ pc' = "has_text"
    /\ UNCHANGED <<entry, doc, code, value, outcome>>
    /\ UNCHANGED attVars /\ UNCHANGED svcVars

\* line 137: value = extract_gift_card_value(text)
DetailsLocateValue ==
    /\ entry = "extract_gift_card_details" /\ pc = "has_text"
    /\ value' = extract_gift_card_value(text)
    /\ calls' = Append(calls, "extract_gift_card_value")
    /\ pc' = "has_value"
    /\ UNCHANGED <<entry, doc, code, text, outcome>>
    /\ UNCHANGED attVars /\ UNCHANGED svcVars

\* line 139: return code, value
DetailsReturn ==
    /\ entry = "extract_gift_card_details" /\ pc = "has_value"
    /\ outcome' = Returned(<<code, value>>)
    /\ pc' = "done"
    /\ UNCHANGED <<entry, doc, code, text, value, calls>>
    /\ UNCHANGED attVars /\ UNCHANGED svcVars

\* extract_pdf_text called on its own (as extract_gift_card_info does).
CallTextExtractor ==
    /\ entry = "extract_pdf_text" /\ pc = "start"
    /\ text' = extract_pdf_text(doc)
    /\ outcome' = Returned(text')
    /\ calls' = Append(calls, "extract_pdf_text")
    /\ pc' = "done"
    /\ UNCHANGED <<entry, doc, code, value>>
    /\ UNCHANGED attVars /\ UNCHANGED svcVars

NextDetails ==
    \/ DetailsLocateCode
    \/ DetailsNoCode
    \/ DetailsExtractText
    \/ DetailsLocateValue
    \/ DetailsReturn
    \/ CallTextExtractor
SpecDetails == InitDetails /\ [][NextDetails]_vars

----------------------------------------------------------------------------
(* SpecValue: extract_gift_card_value applied to a text.                   *)

MaxValueFrags == 4
ValueFrags == {<<"6","0",".","0","0">>, <<"SHEKEL">>, <<"I","L","S">>,
               <<"7">>, <<".","5">>, <<"SP">>}

RECURSIVE Flatten(_)
Flatten(fs) == IF fs = <<>> THEN <<>> ELSE Head(fs) \o Flatten(Tail(fs))

\* Every text made of at most n fragments of F.
TextsOver(F, n) ==
    UNION { {Flatten(fs) : fs \in [1..k -> F]} : k \in 0..n }

InitValue ==
    /\ entry = "extract_gift_card_value"
    /\ doc = CorruptDoc
    /\ text \in TextsOver(ValueFrags, MaxValueFrags)
    /\ pc = "start"
    /\ code = None /\ value = 0 /\ calls = <<>>
    /\ outcome = Returned(None)
    /\ IdleAtt /\ IdleSvc

CallValueLocator ==
    /\ entry = "extract_gift_card_value" /\ pc = "start"
    /\ value' = extract_gift_card_value(text)
    /\ calls' = Append(calls, "extract_gift_card_value")
    /\ pc' = "done"
    /\ UNCHANGED <<entry, doc, code, text, outcome>>
    /\ UNCHANGED attVars /\ UNCHANGED svcVars

NextValue == CallValueLocator
SpecValue == InitValue /\ [][NextValue]_vars

----------------------------------------------------------------------------
(* main.py: extract_codes_from_attachments.                                *)
(* An attachment is [filename, mimeType, data]; data is what Gmail gave:   *)
(* [b64, file] with b64 "none" (None), "empty" (""), "malformed" (a string *)
(* base64.urlsafe_b64decode rejects) or "ok" (it decodes to the bytes of   *)
(* `file`).                                                                *)

PdfSuffix == <<".", "p", "d", "f">>

\* filename.lower().endswith(".pdf")
LowerEndsWithPdf(name) ==
    /\ Len(name) >= Len(PdfSuffix)
    /\ \A k \in 1..Len(PdfSuffix) :
          ToLower(name[Len(name) - Len(PdfSuffix) + k]) = PdfSuffix[k]

\* lines 49-52
IsPdf(att) ==
    \/ att.mimeType = "application/pdf"
    \/ (att.mimeType = "application/octet-stream" /\ LowerEndsWithPdf(att.filename))

\* the truth value of attachment["data"] (line 54)
HasData(att) == att.data.b64 \notin {"none", "empty"}

\* One turn of the loop of lines 46-77 on attachment att, codes being the list
\* so far: [raised, codes].  The decoding of line 60 stands before the try of
\* line 64, so its error leaves the function; what extract_gift_card_details
\* raises is caught by line 73.
\* lines 64-74; r is what extract_gift_card_details gave.
CodesAfterDetails(codes, r) ==
    IF r.raised THEN codes
    ELSE IF ~NoCode(r.ret[1])
    THEN Append(codes, [code |-> r.ret[1], value |-> r.ret[2]])
    ELSE codes

ProcessAttachment(att, codes) ==
    IF IsPdf(att) /\ HasData(att)
    THEN IF att.data.b64 = "malformed"
         THEN [raised |-> TRUE, codes |-> codes]
         ELSE [raised |-> FALSE,
               codes |-> CodesAfterDetails(codes, extract_gift_card_details(att.data.file))]
    ELSE [raised |-> FALSE, codes |-> codes]

\* The loop from attachment i on.
RECURSIVE AttachmentLoop(_, _, _)
\* r is what the turn on attachment i gave
AfterAttachment(atts, i, r) ==
    IF r.raised THEN r ELSE AttachmentLoop(atts, i + 1, r.codes)
AttachmentLoop(atts, i, codes) ==
    IF i > Len(atts) THEN [raised |-> FALSE, codes |-> codes]
    ELSE AfterAttachment(atts, i, ProcessAttachment(atts[i], codes))

\* extract_codes_from_attachments(attachments)
extract_codes_from_attachments(atts) == AttachmentLoop(atts, 1, <<>>)

OnePage(t) == [openable |-> TRUE, pages |-> <<[readable |-> TRUE, text |-> t]>>]
NoData == [b64 |-> "none", file |-> CorruptDoc]
EmptyData == [b64 |-> "empty", file |-> CorruptDoc]
MalformedData == [b64 |-> "malformed", file |-> CorruptDoc]
FileData(d) == [b64 |-> "ok", file |-> d]

CardPdfName == <<"c","a","r","d",".","p","d","f">>
UpperPdfName == <<"C","A","R","D",".","P","D","F">>
BinName == <<"c","a","r","d",".","b","i","n">>

\* A card with code AB12CD34 worth 60, and one with code ZZ99YY88 and no amount.
CardA == OnePage(CodeLabel \o <<"SP">> \o Token8 \o <<"NL">> \o Amount)
CardB == OnePage(Token8b)

AttCardA == [filename |-> CardPdfName, mimeType |-> "application/pdf",
             data |-> FileData(CardA)]
AttCardB == [filename |-> UpperPdfName, mimeType |-> "application/octet-stream",
             data |-> FileData(CardB)]
AttCorrupt == [filename |-> CardPdfName, mimeType |-> "application/pdf",
               data |-> FileData(CorruptDoc)]
AttMalformed == [filename |-> CardPdfName, mimeType |-> "application/pdf",
                 data |-> MalformedData]
AttNoCode == [filename |-> CardPdfName, mimeType |-> "application/pdf",
              data |-> FileData(OnePage(Amount))]
AttNoData == [filename |-> CardPdfName, mimeType |-> "application/pdf",
              data |-> NoData]
AttEmptyData == [filename |-> CardPdfName, mimeType |-> "application/pdf",
                 data |-> EmptyData]
AttImage == [filename |-> CardPdfName, mimeType |-> "image/png",
             data |-> FileData(CardA)]
AttBinary == [filename |-> BinName, mimeType |-> "application/octet-stream",
              data |-> FileData(CardA)]

MaxAttachments == 3
AttachmentKinds == {AttCardA, AttCardB, AttCorrupt, AttMalformed, AttNoCode,
                    AttNoData, AttEmptyData, AttImage, AttBinary}
\* Every list of at most n elements of S.
ListsOver(S, n) == UNION { [1..k -> S] : k \in 0..n }

----------------------------------------------------------------------------
(* SpecAttachments: extract_codes_from_attachments, one attachment a step. *)

InitAttachments ==
    /\ entry = "extract_codes_from_attachments"
    /\ doc = CorruptDoc
    /\ pc = "loop"
    /\ code = None /\ text = <<>> /\ value = 0 /\ calls = <<>>
    /\ outcome = Returned(None)
    /\ attachments \in ListsOver(AttachmentKinds, MaxAttachments)
    /\ att_i = 1
    /\ codes_with_values = <<>>
    /\ IdleSvc

\* r is what the turn gave: its exception leaves the function.
TurnTaken(r) ==
    IF r.raised
    THEN /\ outcome' = Raised /\ pc' = "done"
         /\ UNCHANGED <<att_i, codes_with_values>>
    ELSE /\ codes_with_values' = r.codes
         /\ att_i' = att_i + 1
         /\ UNCHANGED <<outcome, pc>>

\* lines 46-77: one turn of the loop
AttachmentTurn ==
    /\ entry = "extract_codes_from_attachments" /\ pc = "loop"
    /\ att_i <= Len(attachments)
    /\ TurnTaken(ProcessAttachment(attachments[att_i], codes_with_values))
    /\ UNCHANGED <<entry, doc, code, text, value, calls, attachments>>
    /\ UNCHANGED svcVars

\* lines 79-80: return codes_with_values
AttachmentsReturn ==
    /\ entry = "extract_codes_from_attachments" /\ pc = "loop"
    /\ att_i > Len(attachments)
    /\ outcome' = Returned(codes_with_values)
    /\ pc' = "done"
    /\ UNCHANGED <<entry, doc, code, text, value, calls>>
    /\ UNCHANGED attVars /\ UNCHANGED svcVars

NextAttachments == AttachmentTurn \/ AttachmentsReturn
SpecAttachments == InitAttachments /\ [][NextAttachments]_vars

----------------------------------------------------------------------------
(* supabase_client.py and main.py: the /fetch-gift-cards handler.          *)
(* req[r] is the state of call r of the handler: its position pc, what it  *)
(* was called with, its locals, and its HTTP response.  db0, seen0 and     *)
(* save_db0 remember the table and the cache as they were when the call,   *)
(* and its save_gift_card_codes, began.                                    *)

NoSubject == "invalid"
Subjects == {"u1", "u2"}

NoResponse == [raised |-> FALSE, status |-> 0, body |-> [kind |-> "none"]]
\* raise HTTPException(status_code=status): the framework answers with it.
HttpError(status) == [raised |-> TRUE, status |-> status, body |-> [kind |-> "error"]]
\* any other exception that leaves the handler: Internal Server Error.
ServerError == HttpError(500)
\* a value the handler returns is serialised into a 200 response.
JsonResponse(body) == [raised |-> FALSE, status |-> 200, body |-> body]

NewCall ==
    [pc |-> "idle", runs |-> 1,
     bearer |-> FALSE, supabase_sub |-> NoSubject, gmail_sub |-> NoSubject,
     idx |-> 0, all_codes_with_values |-> <<>>,
     save_i |-> 0, saved_count |-> 0, existing |-> <<>>,
     db0 |-> <<>>, seen0 |-> {}, save_db0 |-> <<>>,
     response |-> NoResponse]

\* A variant of the select of lines 71-76 that lost its .eq("code", code).
SelectAllRows(table, c) == table

\* table("wolt_gift_cards").select("code").eq("code", code).execute().data
SelectByCode(table, c) == SelectSeq(table, LAMBDA row : row.code = c)

\* set(item["code"] for item in all_codes_with_values)
CodesOf(items) == {items[k].code : k \in 1..Len(items)}

\* lines 97-111: the Authorization header, the two clients (whose constructors
\* raise 401 for a token that does not validate), and the comparison of the
\* subjects, whose HTTPException is returned, not raised.
Authenticate(r) ==
    /\ req[r].pc = "idle"
    /\ \E bearer \in BOOLEAN, ssub \in Subjects \cup {NoSubject},
          gsub \in Subjects \cup {NoSubject} :
        LET resp == IF ~bearer THEN HttpError(400)
                    ELSE IF ssub = NoSubject THEN HttpError(401)
                    ELSE IF gsub = NoSubject THEN HttpError(401)
                    ELSE IF ~(ssub = gsub)
                    THEN JsonResponse([kind |-> "HTTPException", status_code |-> 401])
                    ELSE NoResponse
        IN  req' = [req EXCEPT ![r] =
                      [@ EXCEPT !.bearer = bearer, !.supabase_sub = ssub,
                                !.gmail_sub = gsub, !.db0 = db, !.seen0 = seen_cache,
                                !.response = resp,
                                !.pc = IF resp = NoResponse THEN "search" ELSE "done"]]
    /\ UNCHANGED <<db, seen_cache, mailbox>>
    /\ UNCHANGED pdfVars /\ UNCHANGED attVars

\* lines 113-115: the search; no message found ends the call.
Search(r) ==
    /\ req[r].pc = "search"
    /\ req' = [req EXCEPT ![r] =
                 IF mailbox = <<>>
                 THEN [@ EXCEPT !.pc = "done",
                                !.response = JsonResponse([kind |-> "counts",
                                                 total_codes |-> 0, codes_saved |-> 0])]
                 ELSE [@ EXCEPT !.pc = "loop", !.idx = 1]]
    /\ UNCHANGED <<db, seen_cache, mailbox>>
    /\ UNCHANGED pdfVars /\ UNCHANGED attVars

\* the Gmail API call of the search raises
SearchFails(r) ==
    /\ req[r].pc = "search"
    /\ req' = [req EXCEPT ![r] = [@ EXCEPT !.pc = "done", !.response = ServerError]]
    /\ UNCHANGED <<db, seen_cache, mailbox>>
    /\ UNCHANGED pdfVars /\ UNCHANGED attVars

\* supabase_client.is_msg_id_cached(msg_id)
is_msg_id_cached(cache, msg_id) == msg_id \in cache

\* supabase_client.cache_msg_id(msg_id)
cache_msg_id(cache, msg_id) == cache \cup {msg_id}

\* lines 122-124: a message already processed is skipped
LoopSkipSeen(r) ==
    /\ req[r].pc = "loop" /\ req[r].idx <= Len(mailbox)
    /\ is_msg_id_cached(seen_cache, mailbox[req[r].idx].message_id)
    /\ req' = [req EXCEPT ![r] = [@ EXCEPT !.idx = @ + 1]]
    /\ UNCHANGED <<db, seen_cache, mailbox>>
    /\ UNCHANGED pdfVars /\ UNCHANGED attVars

\* lines 128-135; found is what extract_codes_from_attachments gave.
ProcessedEmail(r, email, found) ==
    IF found.raised
    THEN /\ req' = [req EXCEPT ![r] =
                      [@ EXCEPT !.pc = "done", !.response = ServerError]]
         /\ UNCHANGED seen_cache
    ELSE /\ req' = [req EXCEPT ![r] =
                      [@ EXCEPT !.all_codes_with_values = @ \o found.codes,
                                !.idx = @ + 1]]
         /\ seen_cache' = cache_msg_id(seen_cache, email.message_id)

\* lines 126-135: the attachments are fetched, their codes collected and the
\* message marked as processed; an exception of
\* extract_codes_from_attachments leaves the handler.
LoopProcess(r) ==
    /\ req[r].pc = "loop" /\ req[r].idx <= Len(mailbox)
    /\ ~is_msg_id_cached(seen_cache, mailbox[req[r].idx].message_id)
    /\ ProcessedEmail(r, mailbox[req[r].idx],
                      extract_codes_from_attachments(mailbox[req[r].idx].attachments))
    /\ UNCHANGED <<db, mailbox>>
    /\ UNCHANGED pdfVars /\ UNCHANGED attVars

\* line 126: the Gmail API call of fetch_email_attachments raises
LoopFetchFails(r) ==
    /\ req[r].pc = "loop" /\ req[r].idx <= Len(mailbox)
    /\ ~is_msg_id_cached(seen_cache, mailbox[req[r].idx].message_id)
    /\ req' = [req EXCEPT ![r] = [@ EXCEPT !.pc = "done", !.response = ServerError]]
    /\ UNCHANGED <<db, seen_cache, mailbox>>
    /\ UNCHANGED pdfVars /\ UNCHANGED attVars

\* line 137, lines 64-66 of supabase_client.py: save_gift_card_codes is entered
BeginSave(r) ==
    /\ req[r].pc = "loop" /\ req[r].idx > Len(mailbox)
    /\ req' = [req EXCEPT ![r] =
                 [@ EXCEPT !.pc = "save", !.save_i = 1, !.saved_count = 0,
                           !.save_db0 = db]]
    /\ UNCHANGED <<db, seen_cache, mailbox>>
    /\ UNCHANGED pdfVars /\ UNCHANGED attVars

\* lines 71-76: the select of the item's code
SaveSelect(r) ==
    /\ req[r].pc = "save" /\ req[r].save_i <= Len(req[r].all_codes_with_values)
    /\ req' = [req EXCEPT ![r] =
                 [@ EXCEPT !.existing =
                               SelectByCode(db, req[r].all_codes_with_values[req[r].save_i].code),
                           !.pc = "selected"]]
    /\ UNCHANGED <<db, seen_cache, mailbox>>
    /\ UNCHANGED pdfVars /\ UNCHANGED attVars

\* lines 78-84: no row has the code: insert
SaveInsert(r) ==
    /\ req[r].pc = "selected" /\ Len(req[r].existing) = 0
    /\ LET item == req[r].all_codes_with_values[req[r].save_i]
       IN  db' = Append(db, [code |-> item.code, value |-> item.value,
                             user_id |-> req[r].supabase_sub])
    /\ req' = [req EXCEPT ![r] =
                 [@ EXCEPT !.saved_count = @ + 1, !.save_i = @ + 1, !.pc = "save"]]
    /\ UNCHANGED <<seen_cache, mailbox>>
    /\ UNCHANGED pdfVars /\ UNCHANGED attVars

\* lines 85-86: the code exists: skip
SaveSkip(r) ==
    /\ req[r].pc = "selected" /\ Len(req[r].existing) # 0
    /\ req' = [req EXCEPT ![r] = [@ EXCEPT !.save_i = @ + 1, !.pc = "save"]]
    /\ UNCHANGED <<db, seen_cache, mailbox>>
    /\ UNCHANGED pdfVars /\ UNCHANGED attVars

\* a select or an insert raises (network, database): nothing catches it
SaveFails(r) ==
    /\ \/ req[r].pc = "save" /\ req[r].save_i <= Len(req[r].all_codes_with_values)
       \/ req[r].pc = "selected" /\ Len(req[r].existing) = 0
    /\ req' = [req EXCEPT ![r] = [@ EXCEPT !.pc = "done", !.response = ServerError]]
    /\ UNCHANGED <<db, seen_cache, mailbox>>
    /\ UNCHANGED pdfVars /\ UNCHANGED attVars

\* line 88 of supabase_client.py and lines 138-140 of main.py
Respond(r) ==
    /\ req[r].pc = "save" /\ req[r].save_i > Len(req[r].all_codes_with_values)
    /\ req' = [req EXCEPT ![r] =
                 [@ EXCEPT !.pc = "done",
                           !.response = JsonResponse(
                               [kind |-> "counts",
                                total_codes |-> Cardinality(CodesOf(req[r].all_codes_with_values)),
                                codes_saved |-> req[r].saved_count])]]
    /\ UNCHANGED <<db, seen_cache, mailbox>>
    /\ UNCHANGED pdfVars /\ UNCHANGED attVars

MaxRuns == 2

\* the client calls the endpoint again
NextCall(r) ==
    /\ req[r].pc = "done" /\ req[r].runs < MaxRuns
    /\ req' = [req EXCEPT ![r] = [NewCall EXCEPT !.runs = req[r].runs + 1]]
    /\ UNCHANGED <<db, seen_cache, mailbox>>
    /\ UNCHANGED pdfVars /\ UNCHANGED attVars

----------------------------------------------------------------------------
(* SpecService: calls of /fetch-gift-cards, one after the other.           *)

MaxEmails == 2
MaxMailAttachments == 2
MailAttachmentKinds == {AttCardA, AttCardB, AttMalformed, AttCorrupt}
\* Every mailbox of at most maxEmails messages, each with one of the lists of
\* attachments; a message's id is its place in the search result.
MailboxesOver(lists, maxEmails) ==
    UNION { {[m \in 1..n |-> [message_id |-> m, attachments |-> atts[m]]] :
                atts \in [1..n -> lists]} : n \in 0..maxEmails }

\* Tables another user may have filled before.
StoredRow(c, v) == [code |-> c, value |-> v, user_id |-> "u0"]
InitialTables == {<<>>, <<StoredRow(Token8, 10)>>}

InitService ==
    /\ IdlePdf /\ IdleAtt
    /\ db \in InitialTables
    /\ seen_cache = {}
    /\ mailbox \in MailboxesOver(ListsOver(MailAttachmentKinds, MaxMailAttachments),
                                 MaxEmails)
    /\ req = [r \in {1} |-> NewCall]

NextService ==
    \/ \E r \in DOMAIN req : Authenticate(r)
    \/ \E r \in DOMAIN req : Search(r)
    \/ \E r \in DOMAIN req : SearchFails(r)
    \/ \E r \in DOMAIN req : LoopSkipSeen(r)
    \/ \E r \in DOMAIN req : LoopProcess(r)
    \/ \E r \in DOMAIN req : LoopFetchFails(r)
    \/ \E r \in DOMAIN req : BeginSave(r)
    \/ \E r \in DOMAIN req : SaveSelect(r)
    \/ \E r \in DOMAIN req : SaveInsert(r)
    \/ \E r \in DOMAIN req : SaveSkip(r)
    \/ \E r \in DOMAIN req : SaveFails(r)
    \/ \E r \in DOMAIN req : Respond(r)
    \/ \E r \in DOMAIN req : NextCall(r)
SpecService == InitService /\ [][NextService]_vars

----------------------------------------------------------------------------
(* SpecSave: save_gift_card_codes, and the response built from its count,  *)
(* on a list of items and a table without duplicate codes.                 *)

MaxItems == 3
ItemCodes == {Token8, Token8b}
ItemValues == {0, 60}
Items == [code : ItemCodes, value : ItemValues]

NoDuplicateCodes(table) ==
    \A a, b \in 1..Len(table) : table[a].code = table[b].code => a = b

StoredTables ==
    {t \in UNION { [1..k -> {StoredRow(c, 10) : c \in ItemCodes}]
                   : k \in 0..Cardinality(ItemCodes) } : NoDuplicateCodes(t)}

InitSave ==
    /\ IdlePdf /\ IdleAtt
    /\ db \in StoredTables
    /\ seen_cache = {}
    /\ mailbox = <<>>
    /\ \E items \in ListsOver(Items, MaxItems) :
          req = [r \in {1} |->
                   [NewCall EXCEPT !.pc = "save", !.bearer = TRUE,
                                   !.supabase_sub = "u1", !.gmail_sub = "u1",
                                   !.all_codes_with_values = items,
                                   !.save_i = 1, !.db0 = db, !.save_db0 = db]]

NextSave ==
    \/ \E r \in DOMAIN req : SaveSelect(r)
    \/ \E r \in DOMAIN req : SaveInsert(r)
    \/ \E r \in DOMAIN req : SaveSkip(r)
    \/ \E r \in DOMAIN req : SaveFails(r)
    \/ \E r \in DOMAIN req : Respond(r)
SpecSave == InitSave /\ [][NextSave]_vars

----------------------------------------------------------------------------
(* SpecConcurrentSave: two calls of the handler, served at the same time   *)
(* (two worker processes), both inside save_gift_card_codes with a code    *)
(* that the table does not hold.  The select and the insert of an item are *)
(* two requests to the database, so the steps of the two calls interleave. *)

MaxConcurrentItems == 2

\* The codes both calls carry and the table does not hold when they begin.
SharedNewCodes(items1, items2, table) ==
    (CodesOf(items1) \cap CodesOf(items2)) \ {table[k].code : k \in 1..Len(table)}

\* Call r at the first statement of save_gift_card_codes.
SavingCall(sub, items, table) ==
    [NewCall EXCEPT !.pc = "save", !.bearer = TRUE,
                    !.supabase_sub = sub, !.gmail_sub = sub,
                    !.all_codes_with_values = items,
                    !.save_i = 1, !.db0 = table, !.save_db0 = table]

InitConcurrentSave ==
    /\ IdlePdf /\ IdleAtt
    /\ db \in StoredTables
    /\ seen_cache = {}
    /\ mailbox = <<>>
    /\ \E items1 \in ListsOver(Items, MaxConcurrentItems),
          items2 \in ListsOver(Items, MaxConcurrentItems),
          sub1 \in Subjects, sub2 \in Subjects :
          /\ SharedNewCodes(items1, items2, db) # {}
          /\ req = [r \in {1, 2} |->
                      IF r = 1 THEN SavingCall(sub1, items1, db)
                               ELSE SavingCall(sub2, items2, db)]

NextConcurrentSave ==
    \/ \E r \in DOMAIN req : SaveSelect(r)
    \/ \E r \in DOMAIN req : SaveInsert(r)
    \/ \E r \in DOMAIN req : SaveSkip(r)
    \/ \E r \in DOMAIN req : SaveFails(r)
    \/ \E r \in DOMAIN req : Respond(r)
SpecConcurrentSave == InitConcurrentSave /\ [][NextConcurrentSave]_vars

----------------------------------------------------------------------------
(* Properties of the Code Locator (SpecCode).                              *)

\* A token of exactly 8 uppercase letters or digits, with a word boundary on
\* both sides, lies at positions i..i+7 of t.
IsToken8At(t, i) ==
    /\ i + CodeLen - 1 <= Len(t)
    /\ \A k \in i..(i + CodeLen - 1) : t[k] \in UpperAlnum
    /\ (i = 1 \/ t[i - 1] \notin WordChar)
    /\ (i + CodeLen > Len(t) \/ t[i + CodeLen] \notin WordChar)

\* Where the document holds such tokens: <<page, position>>.
Token8Positions(d) ==
    UNION { {<<p, i>> : i \in {i \in 1..Len(d.pages[p].text) :
                                  IsToken8At(d.pages[p].text, i)}}
            : p \in {p \in 1..Len(d.pages) : d.pages[p].readable} }

FirstToken8(d) ==
    LET first == CHOOSE pi \in Token8Positions(d) :
                    \A qi \in Token8Positions(d) :
                        pi[1] < qi[1] \/ (pi[1] = qi[1] /\ pi[2] <= qi[2])
    IN  SubSeq(d.pages[first[1]].text, first[2], first[2] + CodeLen - 1)

\* C1: whenever some page of the document holds a token of exactly 8 uppercase
\* letters/digits between word boundaries, extract_gift_card_code returns the
\* first such token of the document, whatever the fallback patterns match on
\* earlier pages or lines.
C1_FirstEightCharTokenOfDocument ==
    (/\ entry = "extract_gift_card_code" /\ pc = "done"
     /\ ~outcome.raised
     /\ Token8Positions(doc) # {})
    => outcome.ret = FirstToken8(doc)

\* C2: every code extract_gift_card_code returns is made of characters of
\* [A-Z0-9] only and is 7 to 9 characters long.
C2_CodeIsUpperAlnum7to9 ==
    (/\ entry = "extract_gift_card_code" /\ pc = "done"
     /\ ~outcome.raised
     /\ outcome.ret # None)
    => /\ Len(outcome.ret) \in FallbackMinLen..FallbackMaxLen
       /\ \A k \in 1..Len(outcome.ret) : outcome.ret[k] \in UpperAlnum

----------------------------------------------------------------------------
(* Properties of the orchestrator and the Text Extractor (SpecDetails).    *)

\* C3: extract_gift_card_details calls the Code Locator first; with no code it
\* returns (None, 0) having called nothing else; with a code it calls the Text
\* Extractor, then the Value Locator on that text, and returns (code, value).
\* It never returns a non-zero value with no code.
C3_CodeFirstThenShortCircuit ==
    entry = "extract_gift_card_details" =>
        /\ calls # <<>> => calls[1] = "extract_gift_card_code"
        /\ (pc = "done" /\ ~outcome.raised) =>
              /\ code = extract_gift_card_code(doc).ret
              /\ IF code = None
                 THEN /\ outcome.ret = <<None, 0>>
                      /\ calls = <<"extract_gift_card_code">>
                 ELSE /\ calls = <<"extract_gift_card_code", "extract_pdf_text",
                                   "extract_gift_card_value">>
                      /\ text = extract_pdf_text(doc)
                      /\ value = extract_gift_card_value(text)
                      /\ outcome.ret = <<code, value>>
              /\ outcome.ret[1] = None => outcome.ret[2] = 0

\* The short circuit taken on a document whose text does hold an amount.
C3_Witness ==
    /\ entry = "extract_gift_card_details" /\ pc = "done"
    /\ outcome = Returned(<<None, 0>>)
    /\ extract_gift_card_value(extract_pdf_text(doc)) = 60

\* C4: extract_gift_card_details never raises: every document, also one that
\* cannot be opened or has an unreadable page, gives a result pair, and an
\* unopenable document gives (None, 0).
C4_DetailsNeverRaises ==
    (entry = "extract_gift_card_details" /\ pc = "done") =>
        /\ ~outcome.raised
        /\ ~doc.openable => outcome.ret = <<None, 0>>

AllReadable(d) == d.openable /\ \A j \in 1..Len(d.pages) : d.pages[j].readable

\* The text of pages a..b, in page order.
RECURSIVE PagesText(_, _, _)
PagesText(d, a, b) ==
    IF a > b THEN <<>> ELSE d.pages[a].text \o PagesText(d, a + 1, b)

TextExtractorRan ==
    \E k \in 1..Len(calls) : calls[k] = "extract_pdf_text"

ReadablePrefix(d) ==
    Min({j \in 1..Len(d.pages) : ~d.pages[j].readable} \cup {Len(d.pages) + 1}) - 1

----------------------------------------------------------------------------
(* Properties of the Value Locator (SpecValue).                            *)

\* The first position after k that holds no whitespace (Len(s)+1 if none).
NextInk(s, k) ==
    Min({j \in (k + 1)..Len(s) : s[j] \notin Whitespace} \cup {Len(s) + 1})

\* The last position before k that holds no whitespace (0 if none).
PrevInk(s, k) ==
    Max({j \in 1..(k - 1) : s[j] \notin Whitespace} \cup {0})

IsDigitAt(s, k) == k \in 1..Len(s) /\ s[k] \in Digit

\* The digit run that starts at a, and the one that ends at b: <<first, last>>.
RunFrom(s, a) ==
    <<a, Max({b \in a..Len(s) : \A k \in a..b : s[k] \in Digit})>>
RunUpTo(s, b) ==
    <<Min({a \in 1..b : \A k \in a..b : s[k] \in Digit}), b>>

\* The amount written before the marker word that starts at w: the digit run
\* that ends next to it or, when that run is a fraction (follows "<digits>."),
\* the run of the integer part.  wholeOnly: no fraction is admitted.
AmountBefore(s, w, wholeOnly) ==
    LET b == PrevInk(s, w)
        r == RunUpTo(s, b)
    IN  IF ~wholeOnly /\ r[1] >= 3 /\ s[r[1] - 1] = "." /\ IsDigitAt(s, r[1] - 2)
        THEN RunUpTo(s, r[1] - 2)
        ELSE r

\* "<digits>.00 SHEKEL": the digit runs followed by ".00", optional whitespace and
\* the glyph.
DecimalShekelAmounts(s) ==
    {RunUpTo(s, d - 1) : d \in {d \in 2..Len(s) :
        /\ IsDigitAt(s, d - 1)
        /\ LiteralAt(s, d, DecimalZeros)
        /\ LiteralAt(s, NextInk(s, d + 2), ShekelSign)}}

\* Amounts next to the marker word (glyph or "ILS"), on either side of it, with
\* the position their match starts at: <<start, <<first, last>>>>.
AdjacentAmounts(s, word, wholeOnly) ==
    LET at == {w \in 1..Len(s) : LiteralAt(s, w, word)}
    IN  {<<w, RunFrom(s, NextInk(s, w + Len(word) - 1))>> :
            w \in {w \in at : IsDigitAt(s, NextInk(s, w + Len(word) - 1))}}
        \cup
        {<<AmountBefore(s, w, wholeOnly)[1], AmountBefore(s, w, wholeOnly)>> :
            w \in {w \in at : IsDigitAt(s, PrevInk(s, w))}}

NumberAt(s, r) == ToInt(SubSeq(s, r[1], r[2]))

\* The amount of the one that starts first.
FirstDecimal(s) ==
    LET S == DecimalShekelAmounts(s)
    IN  NumberAt(s, CHOOSE r \in S : \A q \in S : r[1] <= q[1])
FirstAdjacent(s, word, wholeOnly) ==
    LET S == AdjacentAmounts(s, word, wholeOnly)
    IN  NumberAt(s, (CHOOSE m \in S : \A q \in S : m[1] <= q[1])[2])

\* C6: extract_gift_card_value tries its patterns in priority order, wherever
\* their matches lie: the integer part of a "<digits>.00 SHEKEL" amount if there is
\* one; otherwise an amount next to the glyph; otherwise the integer part of an
\* amount next to "ILS"; otherwise 0.  The result is a non-negative integer.
C6_ValuePatternPriority ==
    (entry = "extract_gift_card_value" /\ pc = "done") =>
        /\ value \in Nat
        /\ value =
             IF DecimalShekelAmounts(text) # {} THEN FirstDecimal(text)
             ELSE IF AdjacentAmounts(text, ShekelSign, TRUE) # {}
                  THEN FirstAdjacent(text, ShekelSign, TRUE)
             ELSE IF AdjacentAmounts(text, IlsWord, FALSE) # {}
                  THEN FirstAdjacent(text, IlsWord, FALSE)
             ELSE 0

\* "7SHEKEL60.00SHEKEL": the decimal amount wins over the bare one before it.
C6_Witness ==
    /\ entry = "extract_gift_card_value" /\ pc = "done"
    /\ text = <<"7","SHEKEL","6","0",".","0","0","SHEKEL">>
    /\ value = 60

----------------------------------------------------------------------------
(* Properties of the attachment batch (SpecAttachments).                   *)

\* A PDF attachment with data from which a code can be extracted.
YieldsCode(att) ==
    /\ IsPdf(att) /\ HasData(att) /\ att.data.b64 = "ok"
    /\ ~extract_gift_card_details(att.data.file).raised
    /\ extract_gift_card_details(att.data.file).ret[1] # None

\* The (code, value) of the attachments i.. that yield a code, in order.
RECURSIVE ExtractableCodes(_, _)
ExtractableCodes(atts, i) ==
    IF i > Len(atts) THEN <<>>
    ELSE (IF YieldsCode(atts[i])
          THEN LET r == extract_gift_card_details(atts[i].data.file).ret
               IN  <<[code |-> r[1], value |-> r[2]]>>
          ELSE <<>>)
         \o ExtractableCodes(atts, i + 1)

\* C8: a failure on one attachment (undecodable data, unreadable PDF, extraction
\* error) never aborts extract_codes_from_attachments: it returns, in
\* attachment order, the (code, value) of every PDF attachment that yields one.
C8_BatchSurvivesBadAttachment ==
    (entry = "extract_codes_from_attachments" /\ pc = "done") =>
        /\ ~outcome.raised
        /\ outcome.ret = ExtractableCodes(attachments, 1)

----------------------------------------------------------------------------
(* Properties of save_gift_card_codes (SpecSave).                          *)

TableCodes(table) == {table[k].code : k \in 1..Len(table)}

\* The codes of the items that the table did not hold when the save began.
NewCodes(r) == CodesOf(req[r].all_codes_with_values) \ TableCodes(req[r].save_db0)

\* C7: save_gift_card_codes, run on any list of items against a table without
\* duplicate codes, leaves the rows that were there as they were and never
\* makes a duplicate; when it returns it has inserted exactly the codes the
\* table did not hold, each once, and its count is their number, which is at
\* most total_codes of the response.
C7_SaveInsertsEachNewCodeOnce ==
    \A r \in DOMAIN req :
        /\ NoDuplicateCodes(db)
        /\ Len(db) >= Len(req[r].save_db0)
        /\ SubSeq(db, 1, Len(req[r].save_db0)) = req[r].save_db0
        /\ (req[r].pc = "done" /\ ~req[r].response.raised) =>
              /\ TableCodes(db) = TableCodes(req[r].save_db0) \cup
                                  CodesOf(req[r].all_codes_with_values)
              /\ Len(db) - Len(req[r].save_db0) = Cardinality(NewCodes(r))
              /\ req[r].saved_count = Cardinality(NewCodes(r))
              /\ req[r].response.body.codes_saved = req[r].saved_count
              /\ req[r].response.body.codes_saved <= req[r].response.body.total_codes

\* A new code that comes twice is inserted once; a stored one is skipped.
C7_Witness ==
    /\ req[1].pc = "done" /\ ~req[1].response.raised
    /\ req[1].save_db0 = <<StoredRow(Token8b, 10)>>
    /\ Len(req[1].all_codes_with_values) = 3
    /\ req[1].all_codes_with_values[1].code = Token8
    /\ req[1].all_codes_with_values[2].code = Token8b
    /\ req[1].all_codes_with_values[3].code = Token8
    /\ req[1].response.body.codes_saved = 1
    /\ req[1].response.body.total_codes = 2
    /\ Len(db) = 2

----------------------------------------------------------------------------
(* Properties of the /fetch-gift-cards handler (SpecService).              *)

\* C9: when the subject of the Supabase token differs from that of the Google
\* token, the call ends in an Unauthorized (401) error, with the table and
\* the cache of processed messages as they were.
C9_SubjectMismatchIsUnauthorized ==
    \A r \in DOMAIN req :
        (/\ req[r].pc = "done" /\ req[r].bearer
         /\ req[r].supabase_sub # NoSubject /\ req[r].gmail_sub # NoSubject
         /\ req[r].supabase_sub # req[r].gmail_sub)
        => /\ req[r].response.raised
           /\ req[r].response.status = 401
           /\ db = req[r].db0
           /\ seen_cache = req[r].seen0

\* The codes held by the PDF attachments of a message.
CodesInMessage(email) ==
    {extract_gift_card_details(email.attachments[k].data.file).ret[1] :
        k \in {k \in 1..Len(email.attachments) : YieldsCode(email.attachments[k])}}

\* C10: when a call has ended, however it ended, every message marked as
\* processed has all the codes of its PDF attachments in the table.
C10_SeenMessagesHaveTheirCodesSaved ==
    \A r \in DOMAIN req :
        req[r].pc = "done" =>
            \A m \in 1..Len(mailbox) :
                is_msg_id_cached(seen_cache, mailbox[m].message_id)
                => CodesInMessage(mailbox[m]) \subseteq TableCodes(db)

----------------------------------------------------------------------------
(* Properties of two concurrent saves (SpecConcurrentSave).                *)

\* The number of rows of the table that hold code c.
RowsWithCode(table, c) == Cardinality({k \in 1..Len(table) : table[k].code = c})

BothReturned ==
    \A r \in DOMAIN req : req[r].pc = "done" /\ ~req[r].response.raised

\* C11: when two calls of save_gift_card_codes run at the same time and both
\* carry a code the table does not hold, no interleaving of their selects and
\* inserts leaves two rows with that code, and when both calls have returned
\* the sum of their counts is the number of rows added to the table.
C11_ConcurrentSavesInsertOnce ==
    /\ \A c \in SharedNewCodes(req[1].all_codes_with_values,
                                req[2].all_codes_with_values, req[1].save_db0) :
           RowsWithCode(db, c) <= 1
    /\ BothReturned =>
           req[1].saved_count + req[2].saved_count = Len(db) - Len(req[1].save_db0)

====
